---- MODULE Spec2Model ----
(***************************************************************************)
(* Model of the SEO content draft comparator (src/main.py): the extraction *)
(* of (meta, headings, paragraphs) from a document, the heading alignment  *)
(* analyze_headings, and the Streamlit script that gates the comparison.   *)
(*                                                                         *)
(* Python strings are sequences of one-character strings, so that strip,   *)
(* lower, split, re.sub and re.match are computed character by character.  *)
(***************************************************************************)
EXTENDS Integers, Sequences, FiniteSets, TLC

(***************************************************************************)
(* str methods                                                             *)
(***************************************************************************)
UpperChars == <<"A","B","C","D","E","F","G","H","I","J","K","L","M",
                "N","O","P","Q","R","S","T","U","V","W","X","Y","Z">>

LowerChars == <<"a","b","c","d","e","f","g","h","i","j","k","l","m",
                "n","o","p","q","r","s","t","u","v","w","x","y","z">>

\* the lower case of each upper-case letter, and the reverse
LowerOf ==
    [c \in {UpperChars[k] : k \in DOMAIN UpperChars} |->
        LowerChars[CHOOSE k \in DOMAIN UpperChars : UpperChars[k] = c]]

UpperOf ==
    [c \in {LowerChars[k] : k \in DOMAIN LowerChars} |->
        UpperChars[CHOOSE k \in DOMAIN LowerChars : LowerChars[k] = c]]

\* str.lower() / str.upper() on one character
LowerChar(c) == IF c \in DOMAIN LowerOf THEN LowerOf[c] ELSE c

UpperChar(c) == IF c \in DOMAIN UpperOf THEN UpperOf[c] ELSE c

lower(s) == [k \in DOMAIN s |-> LowerChar(s[k])]

upper(s) == [k \in DOMAIN s |-> UpperChar(s[k])]

\* the characters str.strip() and the regex class \s remove
IsSpace(c) == c \in {" ", "\n", "\t"}

RECURSIVE lstrip(_)
lstrip(s) ==
    IF s # <<>> /\ IsSpace(Head(s)) THEN lstrip(Tail(s)) ELSE s

RECURSIVE rstrip(_)
rstrip(s) ==
    IF s # <<>> /\ IsSpace(s[Len(s)]) THEN rstrip(SubSeq(s, 1, Len(s) - 1)) ELSE s

strip(s) == rstrip(lstrip(s))

\* s.replace(c, "") for a single character c
RemoveChar(s, c) == SelectSeq(s, LAMBDA x : x # c)

\* c in s
Contains(s, c) == \E k \in DOMAIN s : s[k] = c

\* s.find(c) + 1: the first position of c in s, 0 when there is none
IndexOf(s, c) ==
    IF Contains(s, c) THEN CHOOSE k \in DOMAIN s : s[k] = c /\ \A j \in 1..(k - 1) : s[j] # c
    ELSE 0

\* s.startswith(p)
StartsWith(s, p) == Len(s) >= Len(p) /\ SubSeq(s, 1, Len(p)) = p

\* s.split(sep) for a one-character separator
RECURSIVE split(_, _)
split(s, sep) ==
    IF ~Contains(s, sep) THEN <<s>>
    ELSE <<SubSeq(s, 1, IndexOf(s, sep) - 1)>>
         \o split(SubSeq(s, IndexOf(s, sep) + 1, Len(s)), sep)

(***************************************************************************)
(* difflib.SequenceMatcher(None, a, b).ratio(), as analyze_headings calls  *)
(* it: no junk predicate, and the autojunk heuristic only applies to       *)
(* strings of 200 or more characters.  A ratio is kept exact, as the pair  *)
(* <<numerator, denominator>>.                                             *)
(***************************************************************************)
\* length of the common run of a[i..ahi] and b[j..bhi]
RECURSIVE RunLen(_, _, _, _, _, _)
RunLen(a, i, ahi, b, j, bhi) ==
    IF i > ahi \/ j > bhi THEN 0
    ELSE IF a[i] # b[j] THEN 0
    ELSE 1 + RunLen(a, i + 1, ahi, b, j + 1, bhi)

\* find_longest_match: the longest block, the earliest in a, then the earliest in b
LongestMatch(a, alo, ahi, b, blo, bhi) ==
    LET runs == {<<RunLen(a, p[1], ahi, b, p[2], bhi), p[1], p[2]>> :
                    p \in {q \in (alo..ahi) \X (blo..bhi) : a[q[1]] = b[q[2]]}}
        sizes == {r[1] : r \in runs}
        k  == CHOOSE n \in sizes : \A m \in sizes : n >= m
        is == {r[2] : r \in {t \in runs : t[1] = k}}
        i  == CHOOSE n \in is : \A m \in is : n <= m
        js == {r[3] : r \in {t \in runs : t[1] = k /\ t[2] = i}}
        j  == CHOOSE n \in js : \A m \in js : n <= m
    IN  IF runs = {} THEN [i |-> alo, j |-> blo, k |-> 0]
        ELSE [i |-> i, j |-> j, k |-> k]

\* get_matching_blocks: the total size of the blocks found by recursing to the
\* left and to the right of the longest match
RECURSIVE Matches(_, _, _, _, _, _)
Matches(a, alo, ahi, b, blo, bhi) ==
    IF alo > ahi \/ blo > bhi THEN 0
    ELSE LET m == LongestMatch(a, alo, ahi, b, blo, bhi)
         IN  IF m.k = 0 THEN 0
             ELSE m.k + Matches(a, alo, m.i - 1, b, blo, m.j - 1)
                      + Matches(a, m.i + m.k, ahi, b, m.j + m.k, bhi)

\* ratio() = 2.0 * M / T, and 1.0 when both strings are empty
ratio(a, b) ==
    IF Len(a) + Len(b) = 0 THEN <<1, 1>>
    ELSE <<2 * Matches(a, 1, Len(a), b, 1, Len(b)), Len(a) + Len(b)>>

\* comparisons of two ratios (denominators are positive)
RatGT(r, s) == r[1] * s[2] > s[1] * r[2]

RatGE(r, s) == r[1] * s[2] >= s[1] * r[2]

RatEQ(r, s) == r[1] * s[2] = s[1] * r[2]


(***************************************************************************)
(* Label normalisation and the label tables                                *)
(***************************************************************************)
\* the literal the pattern \(Character limit.*?\) starts with
CharLimitOpen == <<"(","C","h","a","r","a","c","t","e","r"," ","l","i","m","i","t">>

\* the end of the shortest match of \(Character limit.*?\) at the head of s:
\* the first ")" after the literal with no line break before it; 0 when the
\* pattern does not match at the head of s
CharLimitEnd(s) ==
    IF Head(s) # "(" \/ ~StartsWith(s, CharLimitOpen) THEN 0
    ELSE LET n    == Len(CharLimitOpen)
             ends == {k \in (n + 1)..Len(s) :
                         s[k] = ")" /\ \A j \in (n + 1)..(k - 1) : s[j] \notin {")", "\n"}}
         IN  IF ends = {} THEN 0 ELSE CHOOSE k \in ends : TRUE

\* re.sub(r"\(Character limit.*?\)", "", txt): every match is cut out, left to right
RECURSIVE SubCharLimit(_)
SubCharLimit(s) ==
    IF ~Contains(s, "(") THEN s
    ELSE IF CharLimitEnd(s) > 0 THEN SubCharLimit(SubSeq(s, CharLimitEnd(s) + 1, Len(s)))
    ELSE <<Head(s)>> \o SubCharLimit(Tail(s))

\* clean_label_text(txt)
clean_label_text(txt) ==
    lower(strip(RemoveChar(RemoveChar(SubCharLimit(txt), "("), ")")))

\* possible_labels of parse_paragraphs_for_meta
possible_labels ==
    (<<"m","e","t","a"," ","t","i","t","l","e">> :> "Meta Title")
    @@ (<<"m","e","t","a"," ","d","e","s","c","r","i","p","t","i","o","n">> :> "Meta Description")
    @@ (<<"h","1">> :> "H1")
    @@ (<<"u","r","l">> :> "URL")

\* triggers of try_extract_inline_meta and of parse_meta_fields_from_row
triggers ==
    (<<"m","e","t","a"," ","t","i","t","l","e">> :> "Meta Title")
    @@ (<<"t","i","t","l","e"," ","t","a","g">> :> "Meta Title")
    @@ (<<"m","e","t","a"," ","d","e","s","c","r","i","p","t","i","o","n">> :> "Meta Description")
    @@ (<<"e","x","i","s","t","i","n","g"," ","u","r","l">> :> "URL")
    @@ (<<"u","r","l">> :> "URL")
    @@ (<<"h","1">> :> "H1")

\* a write that keeps a value that is already set
SetItemKeepFirst(m, field, value) ==
    IF field \in DOMAIN m /\ m[field] # <<>> THEN m
    ELSE [f \in DOMAIN m \cup {field} |-> IF f = field THEN value ELSE m[f]]

\* meta[field] = value on a dict: the key is added when it is not there yet
SetItem(m, field, value) ==
    [f \in DOMAIN m \cup {field} |-> IF f = field THEN value ELSE m[f]]

(***************************************************************************)
(* try_extract_inline_meta(line, meta)                                     *)
(***************************************************************************)
\* parts = line_no_brackets.split(":", 1)
InlineParts(line) ==
    LET line_no_brackets == SubCharLimit(line)
        c == IndexOf(line_no_brackets, ":")
    IN  [label |-> lower(strip(SubSeq(line_no_brackets, 1, c - 1))),
         value |-> strip(SubSeq(line_no_brackets, c + 1, Len(line_no_brackets)))]

\* the value try_extract_inline_meta returns
InlineMetaMatches(line) ==
    /\ Contains(SubCharLimit(line), ":")
    /\ InlineParts(line).label \in DOMAIN triggers

(***************************************************************************)
(* The heading pattern: re.match of H, a digit 1-6, a colon, white space   *)
(* and the rest of the line, with flags=re.IGNORECASE                      *)
(***************************************************************************)
HeadingMatches(line) ==
    /\ Len(line) >= 3
    /\ line[1] \in {"H", "h"}
    /\ line[2] \in {"1", "2", "3", "4", "5", "6"}
    /\ line[3] = ":"

\* (match.group(1).upper(), match.group(2).strip()): the white space after the
\* colon is skipped and the second group stops at a line break
HeadingOf(line) ==
    LET rest == lstrip(SubSeq(line, 4, Len(line)))
        stop == IndexOf(rest, "\n")
        grp2 == IF stop = 0 THEN rest ELSE SubSeq(rest, 1, stop - 1)
    IN  <<upper(SubSeq(line, 1, 2)), strip(grp2)>>

(***************************************************************************)
(* State                                                                   *)
(***************************************************************************)
VARIABLES
    \* analyze_headings(headings_v1, headings_v2, threshold)
    v1_strings,     \* [f"{tag}: {txt}" for tag, txt in headings_v1]
    v2_strings,     \* [f"{tag}: {txt}" for tag, txt in headings_v2]
    threshold,      \* the threshold argument, <<numerator, denominator>>
    used_v1,        \* the set used_v1 (None is the index 0)
    results,        \* the dict results
    v2_done,        \* how many headings of v2_strings the for loop has processed
    pcA,            \* where analyze_headings is: "match", "removed", "done"
    \* extract_content(docx_file)
    lines,          \* the list parse_paragraphs_for_meta is given
    doc_rows,       \* the rows of doc.tables in table and row order, a list of cell texts each
    meta,           \* the dict meta
    headings,       \* the list headings
    paragraphs,     \* the list paragraphs
    body_i,         \* the cursor i of parse_paragraphs_for_meta
    row_i,          \* how many rows parse_table_for_meta_and_others has finished
    cell_texts,     \* cell_texts of the current row
    pair_i,         \* the cursor i of parse_meta_fields_from_row
    row_lines,      \* the lines the two inner for loops of the current row go through
    scan_i,         \* how many of row_lines they have gone through
    pcE,            \* where the extraction is: "body", "tables", "row_pairs", "row_lines", "done"
    \* a record of the writes to meta, kept for the properties
    body_set,       \* field -> the last value the body pass wrote
    table_set,      \* field -> the last value the table pass wrote
    stored_cells,   \* the cell indices (from 1) of the current row stored as values
    line_kind,      \* what the body pass did with each line it has passed, in line order
    \* the Streamlit script
    uploaded_files, \* the names of the files in the uploader, in order
    openai_api_key, \* the text input
    enable_ai,      \* the checkbox
    api_key,        \* openai.api_key, which outlives a run of the script
    v1,             \* the first selectbox
    v2,             \* the second selectbox
    button,         \* st.button("Compare Versions") in this run
    out,            \* what this run has rendered so far, in order
    ai_output,      \* what compare_sections_with_ai returned
    caller,         \* who called compare_sections_with_ai: "ui" or "direct"
    unhandled,      \* an exception left the script
    pcU             \* where the script is

alignVars == <<v1_strings, v2_strings, threshold, used_v1, results, v2_done, pcA>>

docVars == <<lines, doc_rows>>

outVars == <<meta, headings, paragraphs>>

rowVars == <<row_i, cell_texts, pair_i, row_lines, scan_i>>

logVars == <<body_set, table_set, stored_cells, line_kind>>

extractVars == <<docVars, outVars, body_i, rowVars, pcE, logVars>>

widgetVars == <<uploaded_files, openai_api_key, enable_ai, v1, v2>>

uiVars == <<widgetVars, api_key, button, out, ai_output, caller, unhandled, pcU>>

vars == <<alignVars, extractVars, uiVars>>

\* all sequences over S of length at most n
SeqsUpTo(S, n) == UNION {[1..k -> S] : k \in 0..n}

(***************************************************************************)
(* analyze_headings                                                        *)
(***************************************************************************)
\* the headings the alignment is run on
MaxHeadings == 2

HeadingVocab ==
    { <<<<"H","2">>, <<"I","n","t","r","o">>>>,
      <<<<"H","2">>, <<"I","n","t","r","o","d","u","c","t","i","o","n">>>>,
      <<<<"H","2">>, <<"T","o","p","i","c"," ","A">>>>,
      <<<<"H","3">>, <<"T","o","p","i","c"," ","B">>>>,
      <<<<"H","2">>, <<"T","o","p","i","c"," ","B">>>> }

\* the thresholds it is called with: 0, 0.5, the default 0.7, 0.9
Thresholds == { <<0, 1>>, <<1, 2>>, <<7, 10>>, <<9, 10>> }

\* f"{tag}: {txt}"
FormatHeading(h) == h[1] \o <<":", " ">> \o h[2]

\* SequenceMatcher(None, heading_v1, heading_v2).ratio() for the heading strings
\* of the vocabulary, computed once
VocabStrings == {FormatHeading(h) : h \in HeadingVocab}

VocabRatio == [a \in VocabStrings |-> [b \in VocabStrings |-> ratio(a, b)]]

HeadingRatio(heading_v1, heading_v2) ==
    IF heading_v1 \in VocabStrings /\ heading_v2 \in VocabStrings
    THEN VocabRatio[heading_v1][heading_v2]
    ELSE ratio(heading_v1, heading_v2)

\* Python's None, as a list index and as a string
NoneIndex == 0

NoneStr == <<"None">>

\* the inner loop over v1_strings, from index i on: the first unused heading of
\* the strictly highest ratio so far replaces the best
RECURSIVE BestFrom(_, _, _, _, _)
BestFrom(v1s, used, heading_v2, i, best) ==
    IF i > Len(v1s) THEN best
    ELSE IF i \in used THEN BestFrom(v1s, used, heading_v2, i + 1, best)
    ELSE LET r == HeadingRatio(v1s[i], heading_v2)
         IN  IF RatGT(r, best.best_ratio)
             THEN BestFrom(v1s, used, heading_v2, i + 1,
                           [best_ratio |-> r, best_index |-> i, best_str_v1 |-> v1s[i]])
             ELSE BestFrom(v1s, used, heading_v2, i + 1, best)

\* best_ratio, best_index, best_str_v1 after the inner loop
BestMatch(v1s, used, heading_v2) ==
    BestFrom(v1s, used, heading_v2, 1,
             [best_ratio |-> <<0, 1>>, best_index |-> NoneIndex, best_str_v1 |-> NoneStr])

\* the threshold test before the equality test
ClassifyThresholdFirst(best_ratio, thr) ==
    IF RatGE(best_ratio, thr) THEN "modified"
    ELSE IF RatEQ(best_ratio, <<1, 1>>) THEN "unchanged"
    ELSE "added"

\* the if / elif / else on best_ratio
Classify(best_ratio, thr) ==
    IF RatEQ(best_ratio, <<1, 1>>) THEN "unchanged"
    ELSE IF RatGE(best_ratio, thr) THEN "modified"
    ELSE "added"

AlignInit ==
    /\ \E h1 \in SeqsUpTo(HeadingVocab, MaxHeadings), h2 \in SeqsUpTo(HeadingVocab, MaxHeadings) :
          /\ v1_strings = [k \in DOMAIN h1 |-> FormatHeading(h1[k])]
          /\ v2_strings = [k \in DOMAIN h2 |-> FormatHeading(h2[k])]
    /\ threshold \in Thresholds
    /\ used_v1 = {}
    /\ results = [unchanged |-> <<>>, modified |-> <<>>, added |-> <<>>, removed |-> <<>>]
    /\ v2_done = 0
    /\ pcA = "match"

\* one iteration of "for heading_v2 in v2_strings"
MatchHeading ==
    /\ pcA = "match"
    /\ v2_done < Len(v2_strings)
    /\ LET heading_v2 == v2_strings[v2_done + 1]
           best == BestMatch(v1_strings, used_v1, heading_v2)
           kind == Classify(best.best_ratio, threshold)
       IN  /\ results' =
                 IF kind = "unchanged"
                 THEN [results EXCEPT !.unchanged = Append(@, <<best.best_str_v1, heading_v2>>)]
                 ELSE IF kind = "modified"
                 THEN [results EXCEPT !.modified = Append(@, <<best.best_str_v1, heading_v2>>)]
                 ELSE [results EXCEPT !.added = Append(@, heading_v2)]
           /\ used_v1' = IF kind = "added" THEN used_v1 ELSE used_v1 \cup {best.best_index}
    /\ v2_done' = v2_done + 1
    /\ UNCHANGED <<extractVars, uiVars, v1_strings, v2_strings, threshold, pcA>>

\* the for loop is exhausted
MatchDone ==
    /\ pcA = "match"
    /\ v2_done = Len(v2_strings)
    /\ pcA' = "removed"
    /\ UNCHANGED <<extractVars, uiVars, v1_strings, v2_strings, threshold, used_v1, results, v2_done>>

\* the unused headings of v1_strings, from index i on, in order
RECURSIVE UnusedFrom(_, _, _)
UnusedFrom(v1s, used, i) ==
    IF i > Len(v1s) THEN <<>>
    ELSE IF i \notin used THEN <<v1s[i]>> \o UnusedFrom(v1s, used, i + 1)
    ELSE UnusedFrom(v1s, used, i + 1)

\* the loop that fills results["removed"], and the return
CollectRemoved ==
    /\ pcA = "removed"
    /\ results' = [results EXCEPT !.removed = @ \o UnusedFrom(v1_strings, used_v1, 1)]
    /\ pcA' = "done"
    /\ UNCHANGED <<extractVars, uiVars, v1_strings, v2_strings, threshold, used_v1, v2_done>>

AlignStep == MatchHeading \/ MatchDone \/ CollectRemoved

(***************************************************************************)
(* extract_content                                                         *)
(***************************************************************************)
\* the document has at most MaxBlocks text blocks: body paragraphs and table cells
MaxBlocks == 3

\* the texts of doc.paragraphs
LineVocab ==
    { <<"M","e","t","a"," ","T","i","t","l","e">>,
      <<"T","i","t","l","e"," ","T","a","g"," ","(","C","h","a","r","a","c","t","e","r"," ","l","i","m","i","t",":"," ","6","0"," ","m","a","x",")">>,
      <<"M","e","t","a"," ","D","e","s","c","r","i","p","t","i","o","n">>,
      <<"E","x","i","s","t","i","n","g"," ","U","R","L">>,
      <<"U","R","L">>,
      <<"H","1">>,
      <<"U","R","L",":"," ","/","a">>,
      <<"H","1",":"," ","H","i">>,
      <<"H","2",":"," ","H","i">>,
      <<"h","3",":"," "," ","Y","o">>,
      <<"H","4",":","H","i">>,
      <<"H","5",":"," ","H","i">>,
      <<"H","6",":"," ","H","i">>,
      <<"B","o","d","y"," ","t","e","x","t",".">>,
      <<" ">> }

\* the texts of the cells of doc.tables
CellVocab ==
    { <<"T","i","t","l","e"," ","T","a","g"," ","(","C","h","a","r","a","c","t","e","r"," ","l","i","m","i","t",":"," ","6","0"," ","m","a","x",")">>,
      <<"U","R","L">>,
      <<"G","u","i","d","e">>,
      <<"U","R","L",":"," ","/","b","\n"," ","\n","H","2",":"," ","H","i">> }

\* the trimmed strings the parsers classify: lines, cells, and the lines of cells
KnownLines ==
    {strip(l) : l \in LineVocab}
    \cup {strip(c) : c \in CellVocab}
    \cup UNION {{strip(split(strip(c), "\n")[k]) : k \in DOMAIN split(strip(c), "\n")} : c \in CellVocab}

\* clean_label_text, worked out once for each known string
clean_label_memo == [l \in KnownLines |-> clean_label_text(l)]

CleanLabel(l) ==
    IF l \in DOMAIN clean_label_memo THEN clean_label_memo[l] ELSE clean_label_text(l)

\* the test and the parts of try_extract_inline_meta, worked out once for each known string
inline_memo == [l \in KnownLines |-> [matches |-> InlineMetaMatches(l), parts |-> InlineParts(l)]]

InlineMatch(l) ==
    IF l \in DOMAIN inline_memo THEN inline_memo[l].matches ELSE InlineMetaMatches(l)

InlinePartsOf(l) ==
    IF l \in DOMAIN inline_memo THEN inline_memo[l].parts ELSE InlineParts(l)

\* meta after try_extract_inline_meta(line, meta)
try_extract_inline_meta(line, m) ==
    IF InlineMatch(line)
    THEN SetItem(m, triggers[InlinePartsOf(line).label], InlinePartsOf(line).value)
    ELSE m

\* the rows of at most n cells, and the lists of rows of at most n cells in all
RowsUpTo(n) == UNION {[1..k -> CellVocab] : k \in 1..n}

RECURSIVE RowSeqs(_)
RowSeqs(n) ==
    IF n = 0 THEN {<<>>}
    ELSE {<<>>} \cup UNION {{<<r>> \o rest : rest \in RowSeqs(n - Len(r))} : r \in RowsUpTo(n)}

\* meta = {"Meta Title": "", "Meta Description": "", "URL": ""}
EmptyMeta == [f \in {"Meta Title", "Meta Description", "URL"} |-> <<>>]

\* [p.text.strip() for p in doc.paragraphs if p.text.strip()]
RECURSIVE doc_paragraph_lines(_)
doc_paragraph_lines(texts) ==
    IF texts = <<>> THEN <<>>
    ELSE IF strip(Head(texts)) # <<>>
         THEN <<strip(Head(texts))>> \o doc_paragraph_lines(Tail(texts))
    ELSE doc_paragraph_lines(Tail(texts))

\* extract_content on a document, or parse_paragraphs_for_meta on a list of lines
ExtractInit ==
    /\ \E k \in 0..MaxBlocks :
          \E texts \in [1..k -> LineVocab], rows \in RowSeqs(MaxBlocks - k) :
             /\ doc_rows = rows
             /\ \/ lines = doc_paragraph_lines(texts)
                \/ rows = <<>> /\ lines = texts
    /\ meta = EmptyMeta
    /\ headings = <<>>
    /\ paragraphs = <<>>
    /\ body_i = 0
    /\ row_i = 0
    /\ cell_texts = <<>>
    /\ pair_i = 0
    /\ row_lines = <<>>
    /\ scan_i = 0
    /\ pcE = "body"
    /\ body_set = <<>>
    /\ table_set = <<>>
    /\ stored_cells = {}
    /\ line_kind = <<>>

\* the lines of a direct call of parse_paragraphs_for_meta: one of each kind
BodyVocab ==
    { <<"M","e","t","a"," ","T","i","t","l","e">>,
      <<"U","R","L">>,
      <<"H","1">>,
      <<"U","R","L",":"," ","/","a">>,
      <<"H","2",":"," ","H","i">>,
      <<"h","3",":"," "," ","Y","o">>,
      <<"B","o","d","y"," ","t","e","x","t",".">>,
      <<" ">> }

\* parse_paragraphs_for_meta(lines, meta, headings, paragraphs) on any list of
\* lines, blank ones included, with the empty collections of extract_content
ParseInit ==
    /\ \E k \in 0..MaxBlocks : lines \in [1..k -> BodyVocab]
    /\ doc_rows = <<>>
    /\ meta = EmptyMeta
    /\ headings = <<>>
    /\ paragraphs = <<>>
    /\ body_i = 0
    /\ row_i = 0
    /\ cell_texts = <<>>
    /\ pair_i = 0
    /\ row_lines = <<>>
    /\ scan_i = 0
    /\ pcE = "body"
    /\ body_set = <<>>
    /\ table_set = <<>>
    /\ stored_cells = {}
    /\ line_kind = <<>>

\* the write log: field -> the last value written
Logged(log, field, value) ==
    [f \in DOMAIN log \cup {field} |-> IF f = field THEN value ELSE log[f]]

(***************************************************************************)
(* parse_paragraphs_for_meta: one action per branch of the while loop      *)
(***************************************************************************)
InBody == pcE = "body" /\ body_i < Len(lines)

\* line = lines[i].strip()
BodyLine == strip(lines[body_i + 1])

\* next_line = lines[i+1].strip()
BodyNextLine == strip(lines[body_i + 2])

\* if not line
BodyBlank ==
    /\ InBody
    /\ BodyLine = <<>>
    /\ body_i' = body_i + 1
    /\ line_kind' = line_kind \o <<"blank">>
    /\ UNCHANGED <<alignVars, uiVars, docVars, outVars, rowVars, pcE, body_set, table_set, stored_cells>>

\* clabel in possible_labels
BodyIsLabel == CleanLabel(BodyLine) \in DOMAIN possible_labels

\* the label has a next line that is not itself a label
BodyHasValue ==
    /\ body_i + 1 < Len(lines)
    /\ CleanLabel(BodyNextLine) \notin DOMAIN possible_labels

\* a variant that stores the next line as the value and then moves the cursor
\* onto it, so that the line is considered again
BodyLabelValueBacktrack ==
    /\ InBody
    /\ BodyLine # <<>>
    /\ BodyIsLabel
    /\ BodyHasValue
    /\ meta' = SetItem(meta, possible_labels[CleanLabel(BodyLine)], BodyNextLine)
    /\ body_set' = Logged(body_set, possible_labels[CleanLabel(BodyLine)], BodyNextLine)
    /\ body_i' = body_i + 1
    /\ line_kind' = line_kind \o <<"label", "value">>
    /\ UNCHANGED <<alignVars, uiVars, docVars, headings, paragraphs, rowVars, pcE, table_set, stored_cells>>

\* a label whose value is on the next line
BodyLabelValue ==
    /\ InBody
    /\ BodyLine # <<>>
    /\ BodyIsLabel
    /\ BodyHasValue
    /\ meta' = SetItem(meta, possible_labels[CleanLabel(BodyLine)], BodyNextLine)
    /\ body_set' = Logged(body_set, possible_labels[CleanLabel(BodyLine)], BodyNextLine)
    /\ body_i' = body_i + 2
    /\ line_kind' = line_kind \o <<"label", "value">>
    /\ UNCHANGED <<alignVars, uiVars, docVars, headings, paragraphs, rowVars, pcE, table_set, stored_cells>>

\* a label with no usable next line
BodyLabelAlone ==
    /\ InBody
    /\ BodyLine # <<>>
    /\ BodyIsLabel
    /\ ~BodyHasValue
    /\ body_i' = body_i + 1
    /\ line_kind' = line_kind \o <<"label">>
    /\ UNCHANGED <<alignVars, uiVars, docVars, outVars, rowVars, pcE, body_set, table_set, stored_cells>>

\* try_extract_inline_meta(line, meta) is true
BodyInline ==
    /\ InBody
    /\ BodyLine # <<>>
    /\ ~BodyIsLabel
    /\ InlineMatch(BodyLine)
    /\ meta' = try_extract_inline_meta(BodyLine, meta)
    /\ body_set' = Logged(body_set, triggers[InlinePartsOf(BodyLine).label], InlinePartsOf(BodyLine).value)
    /\ body_i' = body_i + 1
    /\ line_kind' = line_kind \o <<"inline">>
    /\ UNCHANGED <<alignVars, uiVars, docVars, headings, paragraphs, rowVars, pcE, table_set, stored_cells>>

\* the heading pattern matches
BodyHeading ==
    /\ InBody
    /\ BodyLine # <<>>
    /\ ~BodyIsLabel
    /\ ~InlineMatch(BodyLine)
    /\ HeadingMatches(BodyLine)
    /\ headings' = Append(headings, HeadingOf(BodyLine))
    /\ body_i' = body_i + 1
    /\ line_kind' = line_kind \o <<"heading">>
    /\ UNCHANGED <<alignVars, uiVars, docVars, meta, paragraphs, rowVars, pcE, body_set, table_set, stored_cells>>

\* paragraphs.append(line)
BodyParagraph ==
    /\ InBody
    /\ BodyLine # <<>>
    /\ ~BodyIsLabel
    /\ ~InlineMatch(BodyLine)
    /\ ~HeadingMatches(BodyLine)
    /\ paragraphs' = Append(paragraphs, BodyLine)
    /\ body_i' = body_i + 1
    /\ line_kind' = line_kind \o <<"paragraph">>
    /\ UNCHANGED <<alignVars, uiVars, docVars, meta, headings, rowVars, pcE, body_set, table_set, stored_cells>>

\* the while loop ends; extract_content goes on to doc.tables
BodyDone ==
    /\ pcE = "body"
    /\ body_i >= Len(lines)
    /\ pcE' = "tables"
    /\ UNCHANGED <<alignVars, uiVars, docVars, outVars, body_i, rowVars, logVars>>

(***************************************************************************)
(* parse_table_for_meta_and_others and parse_meta_fields_from_row          *)
(***************************************************************************)
\* the cells (from 1) that the pair pass stores as values, from cursor i on
RECURSIVE StoredFrom(_, _)
StoredFrom(cells, i) ==
    IF i >= Len(cells) - 1 THEN {}
    ELSE IF CleanLabel(cells[i + 1]) \in DOMAIN triggers
         THEN {i + 2} \cup StoredFrom(cells, i + 2)
    ELSE StoredFrom(cells, i + 1)

\* the lines of the cells from c on, without the cells in skip
RECURSIVE LinesSkipping(_, _, _)
LinesSkipping(cells, c, skip) ==
    IF c > Len(cells) THEN <<>>
    ELSE IF c \in skip THEN LinesSkipping(cells, c + 1, skip)
    ELSE split(cells[c], "\n") \o LinesSkipping(cells, c + 1, skip)

\* a line scan that leaves out the cells already stored as values
LinesOfUnstoredCells(cells) == LinesSkipping(cells, 1, StoredFrom(cells, 0))

\* the lines of every cell of the row: ctext.split("\n") for ctext in cell_texts
RECURSIVE LinesOfRow(_)
LinesOfRow(cells) ==
    IF cells = <<>> THEN <<>>
    ELSE split(Head(cells), "\n") \o LinesOfRow(Tail(cells))

\* for row in table.rows: cell_texts = [cell.text.strip() for cell in row.cells]
RowStart ==
    /\ pcE = "tables"
    /\ row_i < Len(doc_rows)
    /\ cell_texts' = [k \in DOMAIN doc_rows[row_i + 1] |-> strip(doc_rows[row_i + 1][k])]
    /\ pair_i' = 0
    /\ stored_cells' = {}
    /\ pcE' = "row_pairs"
    /\ UNCHANGED <<alignVars, uiVars, docVars, outVars, body_i, row_i, row_lines, scan_i, body_set, table_set, line_kind>>

InPairs == pcE = "row_pairs" /\ pair_i < Len(cell_texts) - 1

\* label_cell in triggers
PairIsLabel == CleanLabel(cell_texts[pair_i + 1]) \in DOMAIN triggers

\* value_cell = cells_text_list[i+1].strip()
PairValue == strip(cell_texts[pair_i + 2])

\* the label cell and its value cell
PairLabel ==
    /\ InPairs
    /\ PairIsLabel
    /\ meta' = SetItem(meta, triggers[CleanLabel(cell_texts[pair_i + 1])], PairValue)
    /\ table_set' = Logged(table_set, triggers[CleanLabel(cell_texts[pair_i + 1])], PairValue)
    /\ stored_cells' = stored_cells \cup {pair_i + 2}
    /\ pair_i' = pair_i + 2
    /\ UNCHANGED <<alignVars, uiVars, docVars, headings, paragraphs, body_i, row_i, cell_texts, row_lines, scan_i,
                   pcE, body_set, line_kind>>

\* a cell that is no label
PairSkip ==
    /\ InPairs
    /\ ~PairIsLabel
    /\ pair_i' = pair_i + 1
    /\ UNCHANGED <<alignVars, uiVars, docVars, outVars, body_i, row_i, cell_texts, row_lines, scan_i, pcE, logVars>>

\* parse_meta_fields_from_row returns; the for loops over the cells' lines start
PairsDone ==
    /\ pcE = "row_pairs"
    /\ pair_i >= Len(cell_texts) - 1
    /\ row_lines' = LinesOfRow(cell_texts)
    /\ scan_i' = 0
    /\ pcE' = "row_lines"
    /\ UNCHANGED <<alignVars, uiVars, docVars, outVars, body_i, row_i, cell_texts, pair_i, logVars>>

InLines == pcE = "row_lines" /\ scan_i < Len(row_lines)

\* line_stripped = line.strip()
line_stripped == strip(row_lines[scan_i + 1])

\* if not line_stripped: continue
LineBlank ==
    /\ InLines
    /\ line_stripped = <<>>
    /\ scan_i' = scan_i + 1
    /\ UNCHANGED <<alignVars, uiVars, docVars, outVars, body_i, row_i, cell_texts, pair_i, row_lines, pcE, logVars>>

\* try_extract_inline_meta(line_stripped, meta) is true
LineInline ==
    /\ InLines
    /\ line_stripped # <<>>
    /\ InlineMatch(line_stripped)
    /\ meta' = try_extract_inline_meta(line_stripped, meta)
    /\ table_set' = Logged(table_set, triggers[InlinePartsOf(line_stripped).label],
                           InlinePartsOf(line_stripped).value)
    /\ scan_i' = scan_i + 1
    /\ UNCHANGED <<alignVars, uiVars, docVars, headings, paragraphs, body_i, row_i, cell_texts, pair_i, row_lines,
                   pcE, body_set, stored_cells, line_kind>>

\* the heading pattern matches
LineHeading ==
    /\ InLines
    /\ line_stripped # <<>>
    /\ ~InlineMatch(line_stripped)
    /\ HeadingMatches(line_stripped)
    /\ headings' = Append(headings, HeadingOf(line_stripped))
    /\ scan_i' = scan_i + 1
    /\ UNCHANGED <<alignVars, uiVars, docVars, meta, paragraphs, body_i, row_i, cell_texts, pair_i, row_lines,
                   pcE, logVars>>

\* paragraphs.append(line_stripped)
LineParagraph ==
    /\ InLines
    /\ line_stripped # <<>>
    /\ ~InlineMatch(line_stripped)
    /\ ~HeadingMatches(line_stripped)
    /\ paragraphs' = Append(paragraphs, line_stripped)
    /\ scan_i' = scan_i + 1
    /\ UNCHANGED <<alignVars, uiVars, docVars, meta, headings, body_i, row_i, cell_texts, pair_i, row_lines,
                   pcE, logVars>>

\* the row is finished
LinesDone ==
    /\ pcE = "row_lines"
    /\ scan_i >= Len(row_lines)
    /\ row_i' = row_i + 1
    /\ pcE' = "tables"
    /\ UNCHANGED <<alignVars, uiVars, docVars, outVars, body_i, cell_texts, pair_i, row_lines, scan_i, logVars>>

\* return meta, headings, paragraphs
TablesDone ==
    /\ pcE = "tables"
    /\ row_i >= Len(doc_rows)
    /\ pcE' = "done"
    /\ UNCHANGED <<alignVars, uiVars, docVars, outVars, body_i, rowVars, logVars>>

BodyStep ==
    \/ BodyBlank \/ BodyLabelValue \/ BodyLabelAlone \/ BodyInline
    \/ BodyHeading \/ BodyParagraph \/ BodyDone

TableStep ==
    \/ RowStart \/ PairLabel \/ PairSkip \/ PairsDone
    \/ LineBlank \/ LineInline \/ LineHeading \/ LineParagraph \/ LinesDone
    \/ TablesDone

(***************************************************************************)
(* The Streamlit script: every change of a widget runs it from the top     *)
(***************************************************************************)
\* at most MaxFiles files are uploaded
MaxFiles == 3

FileNames == {"brief.docx", "v1.docx"}

\* what the user can type as a key, and what openai.api_key can hold at import
TypedKeys == {"sk-typed"}

NoKey == ""

\* the elements a run renders
Warning == "warning: same file for both"

Metadata == "1) Metadata Changes"

SideBySide == "2) Heading Comparisons"

SubheadChanges == "2.1) Detailed Subhead Changes"

AiSummary == "3) AI summary"

AiDiagnostic == "3) OpenAI API key not provided; cannot generate AI summary."

KeyWarning == "3) warning: provide an OpenAI API key"

AiInfo == "3) info: enable the AI checkbox"

Exception == "exception"

ComparisonOutput == {Metadata, SideBySide, SubheadChanges, AiSummary, AiDiagnostic, KeyWarning, AiInfo}

\* list(file_versions.keys()): the names, each once, in the order first seen
RECURSIVE Versions(_)
Versions(files) ==
    IF files = <<>> THEN <<>>
    ELSE LET rest == Versions(SubSeq(files, 1, Len(files) - 1))
         IN  IF \E k \in DOMAIN rest : rest[k] = files[Len(files)]
             THEN rest
             ELSE Append(rest, files[Len(files)])

\* len(uploaded_files) >= 1
AtLeastOneFile(files) == files # <<>> /\ Len(files) >= 1

\* uploaded_files and len(uploaded_files) >= 2
EnoughFiles(files) == files # <<>> /\ Len(files) >= 2

\* the selectboxes' defaults: index 0 and index min(1, len(versions) - 1)
DefaultFirst(files) == IF EnoughFiles(files) THEN Versions(files)[1] ELSE ""

DefaultSecond(files) ==
    IF EnoughFiles(files)
    THEN Versions(files)[IF Len(Versions(files)) > 1 THEN 2 ELSE 1]
    ELSE ""

\* the guard that is always true
AlwaysCredential(k) == TRUE

\* not (not openai.api_key)
HasCredential(k) == k # NoKey

UIInit ==
    /\ uploaded_files = <<>>
    /\ openai_api_key = NoKey
    /\ enable_ai = FALSE
    /\ api_key = NoKey
    /\ v1 = ""
    /\ v2 = ""
    /\ button = FALSE
    /\ out = <<>>
    /\ ai_output = ""
    /\ caller = "ui"
    /\ unhandled = FALSE
    /\ pcU = "idle"

\* a widget changed: the script runs again from the top, with nothing rendered
Rerun(clicked) ==
    /\ button' = clicked
    /\ out' = <<>>
    /\ ai_output' = ""
    /\ caller' = "ui"
    /\ unhandled' = FALSE
    /\ pcU' = "top"

\* the user types or clears the key
TypeKey ==
    /\ pcU = "idle"
    /\ \E k \in TypedKeys \cup {NoKey} : k # openai_api_key /\ openai_api_key' = k
    /\ Rerun(FALSE)
    /\ UNCHANGED <<alignVars, extractVars, uploaded_files, enable_ai, v1, v2, api_key>>

\* the user ticks or unticks the checkbox
ToggleAI ==
    /\ pcU = "idle"
    /\ enable_ai' = ~enable_ai
    /\ Rerun(FALSE)
    /\ UNCHANGED <<alignVars, extractVars, uploaded_files, openai_api_key, v1, v2, api_key>>

\* the user changes the uploaded files; the selectboxes fall back to their defaults
Upload ==
    /\ pcU = "idle"
    /\ \E files \in SeqsUpTo(FileNames, MaxFiles) :
          /\ files # uploaded_files
          /\ uploaded_files' = files
          /\ v1' = DefaultFirst(files)
          /\ v2' = DefaultSecond(files)
    /\ Rerun(FALSE)
    /\ UNCHANGED <<alignVars, extractVars, openai_api_key, enable_ai, api_key>>

\* the user picks a version in a selectbox
Select ==
    /\ pcU = "idle"
    /\ EnoughFiles(uploaded_files)
    /\ \E a \in DOMAIN Versions(uploaded_files), b \in DOMAIN Versions(uploaded_files) :
          /\ <<Versions(uploaded_files)[a], Versions(uploaded_files)[b]>> # <<v1, v2>>
          /\ v1' = Versions(uploaded_files)[a]
          /\ v2' = Versions(uploaded_files)[b]
    /\ Rerun(FALSE)
    /\ UNCHANGED <<alignVars, extractVars, uploaded_files, openai_api_key, enable_ai, api_key>>

\* the user clicks "Compare Versions", which exists once two files are uploaded
ClickCompare ==
    /\ pcU = "idle"
    /\ EnoughFiles(uploaded_files)
    /\ Rerun(TRUE)
    /\ UNCHANGED <<alignVars, extractVars, widgetVars, api_key>>

\* lines 32-36: if openai_api_key: openai.api_key = openai_api_key
RunTop ==
    /\ pcU = "top"
    /\ api_key' = IF openai_api_key # NoKey THEN openai_api_key ELSE api_key
    /\ pcU' = "gate"
    /\ UNCHANGED <<alignVars, extractVars, widgetVars, button, out, ai_output, caller, unhandled>>

\* line 332: fewer than two files, the rest of the script is skipped
GateClosed ==
    /\ pcU = "gate"
    /\ ~EnoughFiles(uploaded_files)
    /\ pcU' = "idle"
    /\ UNCHANGED <<alignVars, extractVars, widgetVars, api_key, button, out, ai_output, caller,
                   unhandled>>

\* lines 332-347: the files are extracted, the selectboxes and the button are drawn
GateOpen ==
    /\ pcU = "gate"
    /\ EnoughFiles(uploaded_files)
    /\ pcU' = "button"
    /\ UNCHANGED <<alignVars, extractVars, widgetVars, api_key, button, out, ai_output, caller,
                   unhandled>>

\* line 347: the button was not clicked in this run
NotClicked ==
    /\ pcU = "button"
    /\ ~button
    /\ pcU' = "idle"
    /\ UNCHANGED <<alignVars, extractVars, widgetVars, api_key, button, out, ai_output, caller,
                   unhandled>>

\* lines 348-349: st.warning, and nothing else
SameVersion ==
    /\ pcU = "button"
    /\ button
    /\ v1 = v2
    /\ out' = Append(out, Warning)
    /\ pcU' = "idle"
    /\ UNCHANGED <<alignVars, extractVars, widgetVars, api_key, button, ai_output, caller,
                   unhandled>>

\* lines 350-360: the metadata of both versions
RenderMetadata ==
    /\ pcU = "button"
    /\ button
    /\ v1 # v2
    /\ out' = Append(out, Metadata)
    /\ pcU' = "side_by_side"
    /\ UNCHANGED <<alignVars, extractVars, widgetVars, api_key, button, ai_output, caller,
                   unhandled>>

\* lines 362-368: the headings side by side
RenderSideBySide ==
    /\ pcU = "side_by_side"
    /\ out' = Append(out, SideBySide)
    /\ pcU' = "subheads"
    /\ UNCHANGED <<alignVars, extractVars, widgetVars, api_key, button, ai_output, caller,
                   unhandled>>

\* lines 370-419: analyze_headings(heads_v1, heads_v2, threshold=0.7) and its lists
RenderSubheads ==
    /\ pcU = "subheads"
    /\ out' = Append(out, SubheadChanges)
    /\ pcU' = "paragraphs"
    /\ UNCHANGED <<alignVars, extractVars, widgetVars, api_key, button, ai_output, caller,
                   unhandled>>

\* lines 423-429: compare_sections_with_ai is called
AiSection ==
    /\ pcU = "paragraphs"
    /\ enable_ai
    /\ openai_api_key # NoKey
    /\ caller' = "ui"
    /\ pcU' = "compare"
    /\ UNCHANGED <<alignVars, extractVars, widgetVars, api_key, button, out, ai_output, unhandled>>

\* lines 431-432
AiSectionNoKey ==
    /\ pcU = "paragraphs"
    /\ enable_ai
    /\ openai_api_key = NoKey
    /\ out' = Append(out, KeyWarning)
    /\ pcU' = "idle"
    /\ UNCHANGED <<alignVars, extractVars, widgetVars, api_key, button, ai_output, caller,
                   unhandled>>

\* lines 433-434
AiSectionOff ==
    /\ pcU = "paragraphs"
    /\ ~enable_ai
    /\ out' = Append(out, AiInfo)
    /\ pcU' = "idle"
    /\ UNCHANGED <<alignVars, extractVars, widgetVars, api_key, button, ai_output, caller,
                   unhandled>>

\* compare_sections_with_ai called on its own, whatever openai.api_key holds
DirectCall ==
    /\ pcU = "idle"
    /\ caller' = "direct"
    /\ ai_output' = ""
    /\ unhandled' = FALSE
    /\ pcU' = "compare"
    /\ UNCHANGED <<alignVars, extractVars, widgetVars, api_key, button, out>>

\* lines 240-241: no key, the diagnostic is returned
CompareNoKey ==
    /\ pcU = "compare"
    /\ ~HasCredential(api_key)
    /\ ai_output' = AiDiagnostic
    /\ pcU' = "returned"
    /\ UNCHANGED <<alignVars, extractVars, widgetVars, api_key, button, out, caller, unhandled>>

\* lines 246-269: the prompt is built and openai.ChatCompletion.create is called
CompareRemote ==
    /\ pcU = "compare"
    /\ HasCredential(api_key)
    /\ pcU' = "remote_call"
    /\ UNCHANGED <<alignVars, extractVars, widgetVars, api_key, button, out, ai_output, caller,
                   unhandled>>

\* line 277: the call answers
RemoteAnswers ==
    /\ pcU = "remote_call"
    /\ ai_output' = AiSummary
    /\ pcU' = "returned"
    /\ UNCHANGED <<alignVars, extractVars, widgetVars, api_key, button, out, caller, unhandled>>

\* line 269: the call raises (network error, bad status, malformed answer); no
\* try/except is around it, here or at line 429, so the exception leaves the
\* script and the run ends there
RemoteRaises ==
    /\ pcU = "remote_call"
    /\ unhandled' = TRUE
    /\ out' = IF caller = "ui" THEN Append(out, Exception) ELSE out
    /\ pcU' = "idle"
    /\ UNCHANGED <<alignVars, extractVars, widgetVars, api_key, button, ai_output, caller>>

\* line 430: st.markdown(ai_output), or the return to a direct caller
CompareReturns ==
    /\ pcU = "returned"
    /\ out' = IF caller = "ui" THEN Append(out, ai_output) ELSE out
    /\ pcU' = "idle"
    /\ UNCHANGED <<alignVars, extractVars, widgetVars, api_key, button, ai_output, caller,
                   unhandled>>

UserStep == TypeKey \/ ToggleAI \/ Upload \/ Select \/ ClickCompare

ScriptStep ==
    \/ RunTop \/ GateClosed \/ GateOpen \/ NotClicked \/ SameVersion
    \/ RenderMetadata \/ RenderSideBySide \/ RenderSubheads
    \/ AiSection \/ AiSectionNoKey \/ AiSectionOff

CompareStep ==
    \/ DirectCall \/ CompareNoKey \/ CompareRemote \/ RemoteAnswers \/ RemoteRaises
    \/ CompareReturns

(***************************************************************************)
(* Specifications                                                          *)
(***************************************************************************)
\* analyze_headings on its own: no extraction is running
AlignIdle ==
    /\ v1_strings = <<>>
    /\ v2_strings = <<>>
    /\ threshold = <<7, 10>>
    /\ used_v1 = {}
    /\ results = [unchanged |-> <<>>, modified |-> <<>>, added |-> <<>>, removed |-> <<>>]
    /\ v2_done = 0
    /\ pcA = "done"

ExtractIdle ==
    /\ lines = <<>>
    /\ doc_rows = <<>>
    /\ meta = EmptyMeta
    /\ headings = <<>>
    /\ paragraphs = <<>>
    /\ body_i = 0
    /\ row_i = 0
    /\ cell_texts = <<>>
    /\ pair_i = 0
    /\ row_lines = <<>>
    /\ scan_i = 0
    /\ pcE = "done"
    /\ body_set = <<>>
    /\ table_set = <<>>
    /\ stored_cells = {}
    /\ line_kind = <<>>

InitAlign == AlignInit /\ ExtractIdle /\ UIInit

NextAlign == AlignStep

SpecAlign == InitAlign /\ [][NextAlign]_vars

InitExtract == ExtractInit /\ AlignIdle /\ UIInit

NextExtract == BodyStep \/ TableStep

SpecExtract == InitExtract /\ [][NextExtract]_vars

InitParse == ParseInit /\ AlignIdle /\ UIInit

NextParse == BodyStep

\* the body parser alone; the interpreter runs the next statement of a
\* sequential program for as long as there is one
SpecParse == InitParse /\ [][NextParse]_vars /\ WF_vars(NextParse)

InitUI == UIInit /\ AlignIdle /\ ExtractIdle

NextUI == UserStep \/ ScriptStep \/ CompareStep

SpecUI == InitUI /\ [][NextUI]_vars

(***************************************************************************)
(* Properties of analyze_headings                                          *)
(***************************************************************************)
\* how many times x occurs in the sequence q
Count(q, x) == Cardinality({k \in DOMAIN q : q[k] = x})

\* the old sides and the new sides of a list of pairs
OldSides(pairs) == [k \in DOMAIN pairs |-> pairs[k][1]]

NewSides(pairs) == [k \in DOMAIN pairs |-> pairs[k][2]]

\* the heading the next iteration of the for loop is about
IsMatchStep == pcA = "match" /\ v2_done < Len(v2_strings)

NextHeading == v2_strings[v2_done + 1]

\* the old indices not yet used
Unused == {i \in DOMAIN v1_strings : i \notin used_v1}

\* C1: alignment totality. When analyze_headings returns, every old heading is
\* in exactly one of unchanged, modified, removed and every new heading in
\* exactly one of unchanged, modified, added, so the lengths add up to len(old)
\* and len(new), and no pair holds a missing old heading. This is the claim as
\* stated, for every threshold in [0,1]; the code breaks it at threshold 0.
C1_AlignmentTotality ==
    pcA = "done" =>
        /\ Len(results.unchanged) + Len(results.modified) + Len(results.removed)
               = Len(v1_strings)
        /\ Len(results.unchanged) + Len(results.modified) + Len(results.added)
               = Len(v2_strings)
        /\ \A x \in {v1_strings[k] : k \in DOMAIN v1_strings} \cup {NoneStr} :
               Count(OldSides(results.unchanged), x) + Count(OldSides(results.modified), x)
                   + Count(results.removed, x) = Count(v1_strings, x)
        /\ \A x \in {v2_strings[k] : k \in DOMAIN v2_strings} :
               Count(NewSides(results.unchanged), x) + Count(NewSides(results.modified), x)
                   + Count(results.added, x) = Count(v2_strings, x)

\* C5: threshold boundary. Whenever a new heading is processed while an
\* identical old heading string is still unused, the step appends the pair of
\* the two identical strings to unchanged, leaves modified and added alone and
\* marks one unused index of an identical old string used, whatever the
\* threshold.
C5_ThresholdBoundary ==
    [][ (IsMatchStep /\ \E i \in Unused : v1_strings[i] = NextHeading) =>
            /\ results'.unchanged = Append(results.unchanged, <<NextHeading, NextHeading>>)
            /\ results'.modified = results.modified
            /\ results'.added = results.added
            /\ \E i \in Unused : v1_strings[i] = NextHeading /\ used_v1' = used_v1 \cup {i}
      ]_vars

\* C5 witness: a heading was classified unchanged although the threshold 0 would
\* accept any pair as modified
C5_Witness ==
    /\ threshold = <<0, 1>>
    /\ results.unchanged # <<>>
    /\ Len(v1_strings) = MaxHeadings

\* C9: greedy one-to-one matching. Each step of the for loop either classifies
\* the new heading as added and marks no old index used, or pairs it (as
\* unchanged or modified) with the unused old heading of the highest ratio, the
\* lowest index among equal ratios, and marks exactly that index used; the
\* last step makes removed the never-used old headings in old's order. This is
\* the claim as stated; the code breaks it at threshold 0.
C9_GreedyOneToOne ==
    [][ /\ IsMatchStep =>
            \/ /\ results' = [results EXCEPT !.added = Append(@, NextHeading)]
               /\ used_v1' = used_v1
            \/ \E i \in Unused :
                  /\ \A j \in Unused :
                        \/ RatGT(ratio(v1_strings[i], NextHeading), ratio(v1_strings[j], NextHeading))
                        \/ /\ RatEQ(ratio(v1_strings[i], NextHeading), ratio(v1_strings[j], NextHeading))
                           /\ i <= j
                  /\ used_v1' = used_v1 \cup {i}
                  /\ \/ results' = [results EXCEPT !.unchanged = Append(@, <<v1_strings[i], NextHeading>>)]
                     \/ results' = [results EXCEPT !.modified = Append(@, <<v1_strings[i], NextHeading>>)]
        /\ pcA = "removed" =>
               /\ results'.removed = UnusedFrom(v1_strings, used_v1, 1)
               /\ used_v1 \subseteq DOMAIN v1_strings
               /\ Cardinality(used_v1) = Len(results.unchanged) + Len(results.modified)
      ]_vars

(***************************************************************************)
(* Properties of the extraction                                            *)
(***************************************************************************)
\* the elements of a sequence
Range(q) == {q[k] : k \in DOMAIN q}

\* the tags H1..H6, and a line of the form "{tag}: {text}"
HeadingTags == {<<"H", d>> : d \in {"1", "2", "3", "4", "5", "6"}}

IsTaggedLine(l) == \E tag \in HeadingTags : StartsWith(l, tag \o <<":", " ">>)

TaggedPair(l) == <<SubSeq(l, 1, 2), strip(SubSeq(l, 5, Len(l)))>>

\* C2: heading round-trip. When the body pass, or the per-line pass of a table
\* row, classifies a line "{tag}: {text}" with tag in H1..H6, it appends exactly
\* (tag, trimmed text) to headings and stores nothing in meta or paragraphs.
\* This is the claim as stated; the code breaks it for the tag H1.
C2_HeadingRoundTrip ==
    [][ /\ (InBody /\ IsTaggedLine(lines[body_i + 1])) =>
               /\ headings' = Append(headings, TaggedPair(lines[body_i + 1]))
               /\ meta' = meta
               /\ paragraphs' = paragraphs
        /\ (InLines /\ IsTaggedLine(row_lines[scan_i + 1])) =>
               /\ headings' = Append(headings, TaggedPair(row_lines[scan_i + 1]))
               /\ meta' = meta
               /\ paragraphs' = paragraphs
      ]_vars

\* C3: standalone label. In the body pass, when the line at the cursor
\* normalizes to a key of the Field Trigger Table and the next line exists and
\* does not normalize to a key, the next line becomes the value of the key's
\* canonical field, the cursor advances by two, and headings and paragraphs are
\* left alone. This is the claim as stated; the code breaks it for the keys
\* "title tag" and "existing url".
C3_StandaloneLabel ==
    [][ ( /\ InBody
          /\ clean_label_text(BodyLine) \in DOMAIN triggers
          /\ body_i + 1 < Len(lines)
          /\ clean_label_text(BodyNextLine) \notin DOMAIN triggers ) =>
            /\ meta' = [f \in DOMAIN meta \cup {triggers[clean_label_text(BodyLine)]} |->
                           IF f = triggers[clean_label_text(BodyLine)]
                           THEN BodyNextLine ELSE meta[f]]
            /\ body_i' = body_i + 2
            /\ headings' = headings
            /\ paragraphs' = paragraphs
      ]_vars

\* C4: metadata overwrite. When extract_content returns, every field that the
\* body pass set to one value and the table pass set to another holds the value
\* of the last table write, not the body value.
C4_TableOverwritesBody ==
    pcE = "done" =>
        \A f \in DOMAIN body_set \cap DOMAIN table_set :
            body_set[f] # table_set[f] =>
                /\ meta[f] = table_set[f]
                /\ meta[f] # body_set[f]

\* C4 witness: extract_content has returned on a document whose body and table
\* set the same field to different values
C4_Witness ==
    /\ pcE = "done"
    /\ \E f \in DOMAIN body_set \cap DOMAIN table_set : body_set[f] # table_set[f]

\* the place of the first line of cell c among the lines of the row
RECURSIVE LineOffset(_, _)
LineOffset(cells, c) ==
    IF c <= 1 THEN 0
    ELSE LineOffset(cells, c - 1) + Len(split(cells[c - 1], "\n"))

\* a one-line text that is neither blank, inline metadata nor a heading
IsPlain(t) ==
    /\ strip(t) # <<>>
    /\ ~Contains(t, "\n")
    /\ ~InlineMetaMatches(strip(t))
    /\ ~HeadingMatches(strip(t))

\* C10: table row double scan. A label cell at the pair cursor stores the next
\* cell's text under the label's field and moves the cursor by two; the lines
\* gone through afterwards still hold the lines of every stored cell; each
\* non-blank line gone through is classified as exactly one of inline metadata,
\* heading, paragraph, and none is left out; so a plain value stored by the
\* pair pass is also in paragraphs once the row is finished.
C10_TableRowDoubleScan ==
    /\ [][ /\ (InPairs /\ clean_label_text(cell_texts[pair_i + 1]) \in DOMAIN triggers) =>
                  /\ meta'[triggers[clean_label_text(cell_texts[pair_i + 1])]]
                         = strip(cell_texts[pair_i + 2])
                  /\ pair_i' = pair_i + 2
           /\ (InLines /\ strip(row_lines[scan_i + 1]) # <<>>) =>
                  /\ scan_i' = scan_i + 1
                  /\ \/ /\ meta' = try_extract_inline_meta(strip(row_lines[scan_i + 1]), meta)
                        /\ InlineMetaMatches(strip(row_lines[scan_i + 1]))
                        /\ headings' = headings /\ paragraphs' = paragraphs
                     \/ /\ headings' = Append(headings, HeadingOf(strip(row_lines[scan_i + 1])))
                        /\ meta' = meta /\ paragraphs' = paragraphs
                     \/ /\ paragraphs' = Append(paragraphs, strip(row_lines[scan_i + 1]))
                        /\ meta' = meta /\ headings' = headings
           /\ (pcE = "row_lines" /\ pcE' # "row_lines") => scan_i = Len(row_lines)
         ]_vars
    /\ [](pcE = "row_lines" =>
             \A c \in stored_cells :
                 /\ LineOffset(cell_texts, c) + Len(split(cell_texts[c], "\n")) <= Len(row_lines)
                 /\ SubSeq(row_lines, LineOffset(cell_texts, c) + 1,
                           LineOffset(cell_texts, c) + Len(split(cell_texts[c], "\n")))
                        = split(cell_texts[c], "\n"))
    /\ []((pcE \in {"tables", "done"} /\ row_i > 0) =>
             \A c \in stored_cells :
                 IsPlain(cell_texts[c]) => cell_texts[c] \in Range(paragraphs))

\* C10 witness: a plain cell text is the value of a field and a paragraph
C10_Witness ==
    /\ pcE = "done"
    /\ \E c \in stored_cells :
          /\ IsPlain(cell_texts[c])
          /\ cell_texts[c] \in Range(paragraphs)
          /\ \E f \in DOMAIN meta : meta[f] = cell_texts[c]

(***************************************************************************)
(* Properties of the Streamlit script                                      *)
(***************************************************************************)
\* C6: summarizer failure is contained. In a run of the script with the AI
\* analysis enabled and a key typed, a failing remote call never leaves the
\* script as an unhandled exception: the run renders no exception. This is the
\* claim as stated; the code has no handler around the call.
C6_SummarizerFailureContained ==
    caller = "ui" =>
        /\ ~unhandled
        /\ Exception \notin Range(out)

\* C7: missing credential. compare_sections_with_ai entered with no key set
\* returns the diagnostic string without going to the remote call, and the
\* remote call only ever happens with a key set and, when the script is the
\* caller, with the checkbox ticked and a key typed.
C7_MissingCredential ==
    /\ [](pcU = "remote_call" =>
             /\ api_key # NoKey
             /\ caller = "ui" => (enable_ai /\ openai_api_key # NoKey))
    /\ [][ (pcU = "compare" /\ api_key = NoKey) =>
               (ai_output' = AiDiagnostic /\ pcU' = "returned") ]_vars

\* C7 witness: the function was entered without a key and returned the diagnostic
C7_Witness ==
    /\ pcU = "returned"
    /\ api_key = NoKey
    /\ ai_output = AiDiagnostic

\* the script is rendering the comparison or calling the summarizer for it
Comparing ==
    \/ pcU \in {"side_by_side", "subheads", "paragraphs"}
    \/ pcU \in {"compare", "remote_call", "returned"} /\ caller = "ui"
    \/ \E e \in Range(out) : e \in ComparisonOutput \cup {Exception}

\* C8: comparison gating. Comparison work happens only in a run where the
\* button was clicked, at least two files are uploaded and the two selected
\* versions differ; with fewer than two files nothing is rendered; and a run
\* with the same version on both sides renders the warning and nothing else.
C8_ComparisonGating ==
    /\ Comparing => (Len(uploaded_files) >= 2 /\ v1 # v2 /\ button)
    /\ Len(uploaded_files) < 2 => (out = <<>> /\ pcU \notin {"button"})
    /\ Warning \in Range(out) => (out = <<Warning>> /\ v1 = v2)
    /\ (pcU = "idle" /\ button /\ v1 = v2) => out = <<Warning>>

\* C8 witness: two different versions are uploaded, the same one is selected on
\* both sides, and the run ended with the warning alone
C8_Witness ==
    /\ pcU = "idle"
    /\ button
    /\ Len(Versions(uploaded_files)) = 2
    /\ out = <<Warning>>

(***************************************************************************)
(* Properties of parse_paragraphs_for_meta                                 *)
(***************************************************************************)
\* the ways the body pass handles a line
LineKinds == {"blank", "label", "value", "inline", "heading", "paragraph"}

\* the trimmed lines of the given kind among the lines passed so far, in line order
RECURSIVE LinesOfKind(_, _)
LinesOfKind(kind, n) ==
    IF n = 0 THEN <<>>
    ELSE IF line_kind[n] = kind
         THEN Append(LinesOfKind(kind, n - 1), strip(lines[n]))
    ELSE LinesOfKind(kind, n - 1)

\* the body pass is running, or has ended and no table row has been read yet
InBodyPass == pcE = "body" \/ (pcE = "tables" /\ row_i = 0)

\* line j, not consumed as a value, is what its kind says
KindIsRight(j) ==
    LET l == strip(lines[j])
        label == clean_label_text(l) \in DOMAIN possible_labels
    IN  /\ line_kind[j] = "value" => (j > 1 /\ line_kind[j - 1] = "label")
        /\ line_kind[j] # "value" =>
              /\ line_kind[j] = "blank" <=> l = <<>>
              /\ line_kind[j] = "label" <=> (l # <<>> /\ label)
              /\ line_kind[j] = "inline" <=> (l # <<>> /\ ~label /\ InlineMetaMatches(l))
              /\ line_kind[j] = "heading" <=>
                     (l # <<>> /\ ~label /\ ~InlineMetaMatches(l) /\ HeadingMatches(l))
              /\ line_kind[j] = "paragraph" <=>
                     (l # <<>> /\ ~label /\ ~InlineMetaMatches(l) /\ ~HeadingMatches(l))

\* C11: single forward pass of the body parser. On every list of lines
\* parse_paragraphs_for_meta ends, with its cursor equal to the number of
\* lines; each step moves the cursor forward by one or two and never past the
\* end; every line index passed is handled once, as exactly one of blank,
\* standalone label, consumed value, inline metadata, heading or paragraph; a
\* step that consumes a value appends nothing to headings or paragraphs, and
\* the value line is not handled again; and the paragraphs are exactly the
\* trimmed lines that are non-blank and none of label, value, inline metadata
\* or heading, in source order.
C11_SingleForwardPass ==
    /\ <>(pcE # "body")
    /\ [](pcE # "body" => body_i = Len(lines))
    /\ [](/\ body_i <= Len(lines)
          /\ Len(line_kind) = body_i
          /\ \A j \in DOMAIN line_kind : line_kind[j] \in LineKinds /\ KindIsRight(j))
    /\ [](InBodyPass =>
             /\ paragraphs = LinesOfKind("paragraph", Len(line_kind))
             /\ Len(headings) = Len(LinesOfKind("heading", Len(line_kind))))
    /\ [][ (pcE = "body" /\ pcE' = "body") =>
             /\ body_i' \in {body_i + 1, body_i + 2}
             /\ body_i' <= Len(lines)
             /\ SubSeq(line_kind', 1, body_i) = line_kind
             /\ body_i' = body_i + 2 =>
                   /\ SubSeq(line_kind', body_i + 1, body_i + 2) = <<"label", "value">>
                   /\ headings' = headings
                   /\ paragraphs' = paragraphs
             /\ body_i' = body_i + 1 => line_kind'[body_i + 1] # "value"
             /\ \/ headings' = headings /\ paragraphs' = paragraphs
                \/ /\ headings' = headings
                   /\ paragraphs' = Append(paragraphs, strip(lines[body_i + 1]))
                \/ /\ paragraphs' = paragraphs
                   /\ Len(headings') = Len(headings) + 1
      ]_vars

\* C11 witness: the pass has ended on three lines, a standalone label, a value
\* that has the form of a heading, and a paragraph; the value reached neither
\* headings nor paragraphs
C11_Witness ==
    /\ pcE = "tables"
    /\ row_i = 0
    /\ body_i = 3
    /\ line_kind = <<"label", "value", "paragraph">>
    /\ HeadingMatches(strip(lines[2]))
    /\ headings = <<>>
    /\ paragraphs = <<strip(lines[3])>>
====
